---- MODULE Spec2Model ----
(***************************************************************************)
(* Model of captcha-a2-client (src/src/index.ts): the CaptchaA2Client      *)
(* class (constructor, setClientIp, makeRequest, seven domain methods),    *)
(* the CaptchaA2Error class and the two Hono-style middlewares             *)
(* captchaA2CheckMiddleware and captchaA2Middleware.                       *)
(*                                                                         *)
(* JavaScript is run-to-completion: the synchronous prefix of an async     *)
(* function up to its first pending await is one action, and every         *)
(* continuation after an await is one action.                              *)
(***************************************************************************)
EXTENDS Integers, Sequences, FiniteSets, TLC

\* ------------------------------------------------------------ bounds
MaxCalls == 2        \* direct domain-method invocations made by the caller
MaxMw == 2           \* middleware invocations sharing the one client

CallIds == 1..MaxCalls
MwIds == 1..MaxMw

\* ------------------------------------------------------------ data
Absent == "<absent>"             \* undefined: a header / config key not given
IPs == {"ip1"}
InHdrs == IPs \cup {Absent}      \* inbound X-Real-IP header values
SetArgs == IPs \cup {"none"}     \* arguments handed to setClientIp
CfgIps == {Absent, "ip1"}        \* config.clientIp handed to the constructor

BaseUrl == <<"https://svc">>
ApiKey == "key"
AppName == "capt2"

CaptchaKey == "k1"
Value == "179,76"
Phone == <<"+", "1", " ", "5">>
SmsCode == "1234"

Methods == {"generateCaptcha", "checkCaptcha", "verifyCaptcha",
            "sendSmsWithCaptcha", "verifySms", "clearIpRateLimit",
            "clearPhoneRateLimit"}

\* The wire envelope {code, data, error, message}.
NoEnv == [code |-> "-", error |-> "-", message |-> "-", data |-> "-"]
EnvOk == [code |-> "0", error |-> "", message |-> "ok", data |-> "true"]
EnvBad == [code |-> "400", error |-> "BAD_VALUE", message |-> "invalid", data |-> "null"]
Envelopes == {EnvOk, EnvBad}

\* What response.json() can produce: a rejection (malformed body), the JSON
\* value null, or an object.
Bodies == {[kind |-> "malformed", env |-> NoEnv], [kind |-> "null", env |-> NoEnv]}
          \cup {[kind |-> "object", env |-> e] : e \in Envelopes}
NoBody == [kind |-> "-", env |-> NoEnv]

\* JavaScript truthiness of an envelope's data field.
Truthy(d) == d \notin {"null", "false", "undefined", "0", ""}

\* ------------------------------------------------------------ getClientIp
getClientIp(hdr) == IF hdr \in {Absent, ""} THEN "none" ELSE hdr

\* ------------------------------------------------------------ request building
EncodeChar(ch) ==
  CASE ch = "+" -> "%2B"
    [] ch = " " -> "%20"
    [] OTHER -> ch

encodeURIComponent(s) == [i \in 1..Len(s) |-> EncodeChar(s[i])]

Endpoint(m) ==
  CASE m = "generateCaptcha" -> <<"/api/v1/captcha/generate">>
    [] m = "checkCaptcha" -> <<"/api/v1/captcha/check">>
    [] m = "verifyCaptcha" -> <<"/api/v1/captcha/verify">>
    [] m = "sendSmsWithCaptcha" -> <<"/api/v1/sms/send-with-captcha">>
    [] m = "verifySms" -> <<"/api/v1/sms/verify">>
    [] m = "clearIpRateLimit" -> <<"/api/v1/sms/clearip">>
    [] m = "clearPhoneRateLimit" ->
         <<"/api/v1/sms/clear?phone=">> \o encodeURIComponent(Phone)

HttpMethod(m) ==
  IF m \in {"checkCaptcha", "verifyCaptcha", "sendSmsWithCaptcha", "verifySms"}
  THEN "POST" ELSE "GET"

\* The body object handed to makeRequest, as its list of <<key, value>>
\* members; <<>> is "no body" (undefined, so options.body is not set).
BodyOf(m) ==
  CASE m \in {"checkCaptcha", "verifyCaptcha"} ->
         << <<"captchaKey", CaptchaKey>>, <<"value", Value>> >>
    [] m = "sendSmsWithCaptcha" ->
         << <<"captchaKey", CaptchaKey>>, <<"value", Value>>,
            <<"phone", Phone>>, <<"code", SmsCode>> >>
    [] m = "verifySms" -> << <<"phone", Phone>>, <<"code", SmsCode>> >>
    [] OTHER -> <<>>

HeadersNoIp(ip) ==
  [ApiKey |-> ApiKey, XClientIP |-> "none", XApp |-> AppName,
   ContentType |-> "application/json"]

Headers(ip) ==
  [ApiKey |-> ApiKey, XClientIP |-> ip, XApp |-> AppName,
   ContentType |-> "application/json"]

NoReq == [url |-> <<>>, method |-> "-", body |-> <<>>, headers |-> Headers("-")]

\* makeRequest lines 134-149: the request built from the client's fields.
BuildRequest(m, ip) ==
  [url |-> BaseUrl \o Endpoint(m), method |-> HttpMethod(m), body |-> BodyOf(m),
   headers |-> Headers(ip)]

\* ------------------------------------------------------------ outcomes
NoOut == [kind |-> "-", err |-> "-", errResponse |-> NoEnv, message |-> "-",
          json |-> NoBody, data |-> "-"]
Rejected(err, env, msg) ==
  [kind |-> "rejected", err |-> err, errResponse |-> env, message |-> msg,
   json |-> NoBody, data |-> "-"]
ResolvedJson(b) ==
  [kind |-> "resolved", err |-> "-", errResponse |-> NoEnv, message |-> "-",
   json |-> b, data |-> "-"]
ResolvedData(d) ==
  [kind |-> "resolved", err |-> "-", errResponse |-> NoEnv, message |-> "-",
   json |-> NoBody, data |-> d]

\* new CaptchaA2Error(errResponse): super(errResponse.message) reads a
\* property of the argument, which throws a TypeError when it is null.
NewCaptchaA2Error(b) ==
  IF b.kind = "null" THEN Rejected("TypeError", NoEnv, "-")
  ELSE Rejected("CaptchaA2Error", b.env, b.env.message)

MakeRequestResultNoStatus(ok, b) ==
  IF b.kind = "malformed" THEN Rejected("SyntaxError", NoEnv, "-")
  ELSE ResolvedJson(b)

MakeRequestResultWrapped(ok, b) ==
  IF b.kind = "malformed" THEN Rejected("CaptchaA2Error", NoEnv, "-")
  ELSE IF ~ok THEN NewCaptchaA2Error(b)
  ELSE ResolvedJson(b)

\* makeRequest lines 151-160 once fetch has resolved with status flag ok and
\* response.json() has settled with b.
MakeRequestResult(ok, b) ==
  IF b.kind = "malformed" THEN Rejected("SyntaxError", NoEnv, "-")
  ELSE IF ~ok THEN NewCaptchaA2Error(b)
  ELSE ResolvedJson(b)

\* fetch itself rejected: the catch block rethrows the same error.
NetworkFailure == Rejected("FetchError", NoEnv, "-")

\* The domain method's continuation after `await this.makeRequest(...)`.
DomainResult(m, r) ==
  IF r.kind = "rejected" THEN r
  ELSE IF m = "checkCaptcha"
       THEN IF r.json.kind = "null" THEN Rejected("TypeError", NoEnv, "-")
            ELSE ResolvedData(r.json.env.data)
       ELSE r


\* ------------------------------------------------------------ state
VARIABLES
  clientIp,    \* CaptchaA2Client.clientIp
  cfgIp,       \* the clientIp key of the constructor's config (Absent: not given)
  lastSetIp,   \* history: argument of the latest setClientIp call, "none" if none
  setCalled,   \* history: setClientIp has been called
  call,        \* the caller's direct invocations of domain methods
  mw           \* the middleware invocations

vars == <<clientIp, cfgIp, lastSetIp, setCalled, call, mw>>

\* One invocation of a domain method: where it is (pc), the request it
\* issued, the transport's answer (ok, body) and how it settled (out).
\* nReq / nSettle count the requests issued and the settlements; want
\* records lastSetIp at the moment of invocation.
IdleCall ==
  [pc |-> "idle", method |-> "-", req |-> NoReq, ok |-> FALSE, body |-> NoBody,
   out |-> NoOut, nReq |-> 0, nSettle |-> 0, want |-> "-"]

\* constructor line 126
ConstructorClientIp(cfg) == "none"

\* setClientIp line 166
SetField(ip) == ip

\* A domain method called: runs synchronously through makeRequest up to
\* `await fetch(url, options)`.
Issue(m) ==
  [IdleCall EXCEPT !.pc = "fetch", !.method = m, !.req = BuildRequest(m, clientIp),
                   !.nReq = 1, !.want = lastSetIp]

\* fetch resolved with a response whose ok flag is `ok`; response.json() starts.
GotResponse(rec, ok) == [rec EXCEPT !.pc = "json", !.ok = ok]

SettleRetry(rec, out) ==
  IF out.kind = "rejected" /\ rec.nReq < 2
  THEN [rec EXCEPT !.pc = "fetch", !.nReq = @ + 1]
  ELSE [rec EXCEPT !.pc = "settled", !.out = out, !.nSettle = @ + 1]

\* The invocation's promise settles with out.
Settle(rec, out) ==
  [rec EXCEPT !.pc = "settled", !.out = out, !.nSettle = @ + 1]

\* fetch rejected.
AfterFetchFailure(rec) == Settle(rec, DomainResult(rec.method, NetworkFailure))

AfterJsonShared(rec, b) ==
  Settle([rec EXCEPT !.body = b],
         DomainResult(rec.method, MakeRequestResult(call[1].ok, b)))

\* response.json() settled with b.
AfterJson(rec, b) ==
  Settle([rec EXCEPT !.body = b],
         DomainResult(rec.method, MakeRequestResult(rec.ok, b)))

\* The caller's continuation has consumed the settlement.
Consumed(rec) ==
  [IdleCall EXCEPT !.pc = "done", !.nReq = rec.nReq, !.nSettle = rec.nSettle]

\* ------------------------------------------------------------ middleware
\* What the middleware returns: nothing, or c.json(body, status).
NoResp == [status |-> "-", kind |-> "-", env |-> NoEnv]
InvalidBody == [status |-> "400", kind |-> "invalidBody", env |-> NoEnv]
FailedToVerify == [status |-> "500", kind |-> "failedToVerify", env |-> NoEnv]
ErrorJson(env) == [status |-> "500", kind |-> "envelope", env |-> env]

CheckFailedEnv ==
  [code |-> "500", error |-> "CAPTCHA_CHECK_FAILED",
   message |-> "Captcha verification failed", data |-> "null"]

\* The catch blocks, lines 66-71 and 95-100; toJSON returns errResponse.
CatchResponse(e) ==
  IF e.err = "CaptchaA2Error" THEN ErrorJson(e.errResponse) ELSE FailedToVerify

UpstreamMethod(kind) == IF kind = "check" THEN "checkCaptcha" ELSE "verifyCaptcha"

\* One middleware invocation. realIp is the inbound X-Real-IP header; req,
\* ok, out are its upstream captcha call; ctxSet / ctx is the context key
\* 'captchaA2Result'; ctxAtNext records ctxSet when next was called; inb
\* records what c.req.json() produced.
IdleMw ==
  [pc |-> "idle", kind |-> "-", realIp |-> Absent, req |-> NoReq, ok |-> FALSE,
   out |-> NoOut, nReq |-> 0, nextCalled |-> FALSE, ctxSet |-> FALSE,
   ctx |-> NoBody, ctxAtNext |-> FALSE, nextOut |-> "-", resp |-> NoResp,
   inb |-> "-"]

\* lines 43-48 / 78-83: up to `await c.req.json()`.
Started(kind, hdr) == [IdleMw EXCEPT !.pc = "body", !.kind = kind, !.realIp = hdr]

\* return c.json(...): the invocation is over.
Respond(rec, resp) == [rec EXCEPT !.pc = "done", !.resp = resp]

\* `await next()` entered.
CallNext(rec) ==
  [rec EXCEPT !.pc = "next", !.nextCalled = TRUE, !.ctxAtNext = rec.ctxSet]

\* c.set('captchaA2Result', data)
SetCtx(rec, v) == [rec EXCEPT !.ctxSet = TRUE, !.ctx = v]

\* lines 48-56 / 83-91 after c.req.json() settled: reading body.captchaKey
\* of a null body throws inside the same try block as a malformed body.
Readable(inb) == inb = "object"

AfterBody(rec, inb) ==
  IF ~Readable(inb) THEN Respond([rec EXCEPT !.inb = inb], InvalidBody)
  ELSE [rec EXCEPT !.pc = "fetch", !.inb = inb,
                   !.req = BuildRequest(UpstreamMethod(rec.kind), clientIp),
                   !.nReq = @ + 1]

CheckContinueNoTest(rec, out) ==
  IF out.kind = "rejected" THEN Respond(rec, CatchResponse(out))
  ELSE CallNext(rec)

\* lines 56-71: the check middleware once checkCaptcha settled with out.
CheckContinue(rec, out) ==
  IF out.kind = "rejected" THEN Respond(rec, CatchResponse(out))
  ELSE IF ~Truthy(out.data)
       THEN Respond(rec, CatchResponse(
              Rejected("CaptchaA2Error", CheckFailedEnv, CheckFailedEnv.message)))
       ELSE CallNext(rec)

VerifyContinueNextFirst(rec, out) ==
  IF out.kind = "rejected" THEN Respond(rec, CatchResponse(out))
  ELSE SetCtx(CallNext(rec), out.json)

\* lines 91-100: the verify middleware once verifyCaptcha settled with out.
VerifyContinue(rec, out) ==
  IF out.kind = "rejected" THEN Respond(rec, CatchResponse(out))
  ELSE CallNext(SetCtx(rec, out.json))

MwContinue(rec, out) ==
  IF rec.kind = "check" THEN CheckContinue([rec EXCEPT !.out = out], out)
  ELSE VerifyContinue([rec EXCEPT !.out = out], out)

\* What the downstream next() can do: resolve, or reject with an error.
NextOutcomes == {"resolved", "Error", "CaptchaA2Error"}
Thrown(r) ==
  IF r = "CaptchaA2Error" THEN Rejected("CaptchaA2Error", EnvBad, EnvBad.message)
  ELSE Rejected("Error", NoEnv, "-")

\* `await next()` settled: it sits inside the try block.
AfterNext(rec, r) ==
  IF r = "resolved" THEN [rec EXCEPT !.pc = "done", !.nextOut = r]
  ELSE Respond([rec EXCEPT !.nextOut = r], CatchResponse(Thrown(r)))

Finished(rec) == [IdleMw EXCEPT !.pc = "finished", !.nReq = rec.nReq]

\* Promise reactions run before the next task: while a settlement has not
\* been consumed by its caller no other task runs.
Quiet ==
  /\ \A c \in CallIds : call[c].pc # "settled"
  /\ \A m \in MwIds : mw[m].pc # "done"

InitRest ==
  /\ clientIp = ConstructorClientIp(cfgIp)
  /\ lastSetIp = "none"
  /\ setCalled = FALSE
  /\ call = [c \in CallIds |-> IdleCall]
  /\ mw = [m \in MwIds |-> IdleMw]

\* The config the constructor's type admits: {baseUrl, apiKey, appName}.
Init == cfgIp = Absent /\ InitRest

\* The config the README documents: clientIp may be given as well.
InitCfg == cfgIp \in CfgIps /\ InitRest

\* ------------------------------------------------------------ client actions
SetClientIp(ip) ==
  /\ Quiet
  /\ clientIp' = SetField(ip)
  /\ lastSetIp' = ip
  /\ setCalled' = TRUE
  /\ UNCHANGED <<cfgIp, call, mw>>

Invoke(c, m) ==
  /\ Quiet
  /\ call[c].pc = "idle"
  /\ \A d \in CallIds : d < c => call[d].pc # "idle"
  /\ call' = [call EXCEPT ![c] = Issue(m)]
  /\ UNCHANGED <<clientIp, cfgIp, lastSetIp, setCalled, mw>>

FetchFail(c) ==
  /\ Quiet
  /\ call[c].pc = "fetch"
  /\ call' = [call EXCEPT ![c] = AfterFetchFailure(call[c])]
  /\ UNCHANGED <<clientIp, cfgIp, lastSetIp, setCalled, mw>>

FetchResponse(c, ok) ==
  /\ Quiet
  /\ call[c].pc = "fetch"
  /\ call' = [call EXCEPT ![c] = GotResponse(call[c], ok)]
  /\ UNCHANGED <<clientIp, cfgIp, lastSetIp, setCalled, mw>>

JsonSettle(c, b) ==
  /\ Quiet
  /\ call[c].pc = "json"
  /\ call' = [call EXCEPT ![c] = AfterJson(call[c], b)]
  /\ UNCHANGED <<clientIp, cfgIp, lastSetIp, setCalled, mw>>

Observe(c) ==
  /\ call[c].pc = "settled"
  /\ call' = [call EXCEPT ![c] = Consumed(call[c])]
  /\ UNCHANGED <<clientIp, cfgIp, lastSetIp, setCalled, mw>>

\* ------------------------------------------------------------ middleware actions
MwStart(m, kind, hdr) ==
  /\ Quiet
  /\ mw[m].pc = "idle"
  /\ \A d \in MwIds : d < m => mw[d].pc # "idle"
  /\ clientIp' = SetField(getClientIp(hdr))
  /\ lastSetIp' = getClientIp(hdr)
  /\ setCalled' = TRUE
  /\ mw' = [mw EXCEPT ![m] = Started(kind, hdr)]
  /\ UNCHANGED <<cfgIp, call>>

MwBody(m, inb) ==
  /\ Quiet
  /\ mw[m].pc = "body"
  /\ mw' = [mw EXCEPT ![m] = AfterBody(mw[m], inb)]
  /\ UNCHANGED <<clientIp, cfgIp, lastSetIp, setCalled, call>>

MwFetchFail(m) ==
  /\ Quiet
  /\ mw[m].pc = "fetch"
  /\ mw' = [mw EXCEPT ![m] =
       MwContinue(mw[m], DomainResult(UpstreamMethod(mw[m].kind), NetworkFailure))]
  /\ UNCHANGED <<clientIp, cfgIp, lastSetIp, setCalled, call>>

MwFetchResponse(m, ok) ==
  /\ Quiet
  /\ mw[m].pc = "fetch"
  /\ mw' = [mw EXCEPT ![m] = [mw[m] EXCEPT !.pc = "json", !.ok = ok]]
  /\ UNCHANGED <<clientIp, cfgIp, lastSetIp, setCalled, call>>

MwJsonSettle(m, b) ==
  /\ Quiet
  /\ mw[m].pc = "json"
  /\ mw' = [mw EXCEPT ![m] =
       MwContinue(mw[m], DomainResult(UpstreamMethod(mw[m].kind),
                                      MakeRequestResult(mw[m].ok, b)))]
  /\ UNCHANGED <<clientIp, cfgIp, lastSetIp, setCalled, call>>

MwNextSettle(m, r) ==
  /\ Quiet
  /\ mw[m].pc = "next"
  /\ mw' = [mw EXCEPT ![m] = AfterNext(mw[m], r)]
  /\ UNCHANGED <<clientIp, cfgIp, lastSetIp, setCalled, call>>

MwFinish(m) ==
  /\ mw[m].pc = "done"
  /\ mw' = [mw EXCEPT ![m] = Finished(mw[m])]
  /\ UNCHANGED <<clientIp, cfgIp, lastSetIp, setCalled, call>>

\* ------------------------------------------------------------ specifications
Next ==
  \/ \E ip \in SetArgs : SetClientIp(ip)
  \/ \E c \in CallIds, m \in Methods : Invoke(c, m)
  \/ \E c \in CallIds : FetchFail(c)
  \/ \E c \in CallIds, ok \in BOOLEAN : FetchResponse(c, ok)
  \/ \E c \in CallIds, b \in Bodies : JsonSettle(c, b)
  \/ \E c \in CallIds : Observe(c)

NextMw ==
  \/ \E m \in MwIds, kind \in {"check", "verify"}, hdr \in InHdrs : MwStart(m, kind, hdr)
  \/ \E m \in MwIds, inb \in {"malformed", "null", "object"} : MwBody(m, inb)
  \/ \E m \in MwIds : MwFetchFail(m)
  \/ \E m \in MwIds, ok \in BOOLEAN : MwFetchResponse(m, ok)
  \/ \E m \in MwIds, b \in Bodies : MwJsonSettle(m, b)
  \/ \E m \in MwIds, r \in NextOutcomes : MwNextSettle(m, r)
  \/ \E m \in MwIds : MwFinish(m)

\* One client used directly by a caller.
Spec == Init /\ [][Next]_vars

\* The same, constructed from a config that may carry clientIp.
SpecCfg == InitCfg /\ [][Next]_vars

\* One client shared by the middleware invocations of a server.
SpecMw == Init /\ [][NextMw]_vars

\* ------------------------------------------------------------ claims
Active(rec) == rec.pc \in {"fetch", "json", "settled"}
Parsed(b) == b.kind \in {"null", "object"}
NetFailed(rec) == rec.pc = "settled" /\ rec.body.kind = "-"
VerifyUrl == BaseUrl \o <<"/api/v1/captcha/verify">>
CheckUrl == BaseUrl \o <<"/api/v1/captcha/check">>
Issued(r) == r.pc \in {"fetch", "json", "next", "done"}

\* C1: the X-Client-IP header of every request issued is the argument of the
\* latest setClientIp call completed before the invocation ("none" if there
\* was none); only setClientIp changes the client's value, and a request in
\* flight keeps the header it was issued with.
C1_HeaderIsLatestSetIp ==
  /\ clientIp = lastSetIp
  /\ \A c \in CallIds :
       Active(call[c]) => call[c].req.headers.XClientIP = call[c].want

\* A request still in flight carries "ip1" although setClientIp("none") has
\* been called since.
C1_Witness ==
  \E c \in CallIds :
    /\ call[c].pc = "json"
    /\ call[c].req.headers.XClientIP = "ip1"
    /\ setCalled /\ clientIp = "none"

\* C2: a non-2xx response with a parseable envelope rejects, for every
\* domain method, with a CaptchaA2Error whose errResponse is that envelope
\* and whose message is the envelope's message.
C2_ErrorCarriesEnvelope ==
  \A c \in CallIds :
    (call[c].pc = "settled" /\ ~call[c].ok /\ call[c].body.kind = "object") =>
      /\ call[c].out.kind = "rejected"
      /\ call[c].out.err = "CaptchaA2Error"
      /\ call[c].out.errResponse = call[c].body.env
      /\ call[c].out.message = call[c].body.env.message

C2_Witness ==
  \E c \in CallIds :
    /\ call[c].pc = "settled" /\ call[c].method = "checkCaptcha"
    /\ ~call[c].ok /\ call[c].body.env = EnvBad
    /\ call[c].out.errResponse = EnvBad

\* C3: a network failure or an unparseable body rejects with that failure
\* itself, whatever the status; a CaptchaA2Error comes out of the client
\* only when the body parsed and the status was non-2xx.
C3_TransportFailureUnwrapped ==
  \A c \in CallIds :
    call[c].pc = "settled" =>
      /\ NetFailed(call[c]) =>
           (call[c].out.kind = "rejected" /\ call[c].out.err = "FetchError")
      /\ call[c].body.kind = "malformed" =>
           (call[c].out.kind = "rejected" /\ call[c].out.err = "SyntaxError")
      /\ call[c].out.err = "CaptchaA2Error" =>
           (Parsed(call[c].body) /\ ~call[c].ok)

\* HTTP 200 with a body that is not JSON.
C3_Witness ==
  \E c \in CallIds :
    /\ call[c].pc = "settled" /\ call[c].ok /\ call[c].body.kind = "malformed"
    /\ call[c].out.err = "SyntaxError"

OneRequestOneSettlement ==
  \A c \in CallIds :
    /\ call[c].nReq <= 1 /\ call[c].nSettle <= 1
    /\ call[c].pc # "idle" => call[c].nReq = 1
    /\ call[c].pc \in {"settled", "done"} <=> call[c].nSettle = 1

\* C4 as stated: one request and one settlement per invocation, resolving
\* exactly when the request returned 2xx with a parseable body.
C4_Original ==
  /\ OneRequestOneSettlement
  /\ \A c \in CallIds :
       call[c].pc = "settled" =>
         (call[c].out.kind = "resolved" <=> (call[c].ok /\ Parsed(call[c].body)))

\* C4 amended: one request and one settlement per invocation; it resolves
\* exactly when the request returned 2xx with a parseable body, except that
\* checkCaptcha rejects when that body is the JSON value null.
C4_OneRequestOneSettlement ==
  /\ OneRequestOneSettlement
  /\ \A c \in CallIds :
       call[c].pc = "settled" =>
         (call[c].out.kind = "resolved" <=>
            /\ call[c].ok /\ Parsed(call[c].body)
            /\ ~(call[c].method = "checkCaptcha" /\ call[c].body.kind = "null"))

\* checkCaptcha got 2xx with the body null and rejected after one request,
\* beside an invocation that failed and issued no second request.
C4_Witness ==
  \E c, d \in CallIds :
    /\ call[c].pc = "settled" /\ call[c].method = "checkCaptcha"
    /\ call[c].ok /\ call[c].body.kind = "null"
    /\ call[c].out.kind = "rejected" /\ call[c].nReq = 1
    /\ call[d].pc = "done" /\ call[d].nReq = 1 /\ call[d].nSettle = 1

\* C5: two different domain methods in flight together, with no setClientIp
\* between them, make two requests, each with its own endpoint, method and
\* body and the same headers, and each settles from its own response.
C5_ConcurrentCallsIndependent ==
  \A c, d \in CallIds :
    (c # d /\ Active(call[c]) /\ Active(call[d])
       /\ call[c].method # call[d].method) =>
      /\ call[c].nReq = 1 /\ call[d].nReq = 1
      /\ call[c].req.url # call[d].req.url
      /\ call[c].req.url = BaseUrl \o Endpoint(call[c].method)
      /\ call[c].req.method = HttpMethod(call[c].method)
      /\ call[c].req.body = BodyOf(call[c].method)
      /\ call[c].want = call[d].want => call[c].req.headers = call[d].req.headers
      /\ call[c].pc = "settled" =>
           /\ call[c].out.kind = "resolved" =>
                /\ call[c].ok
                /\ \/ call[c].out.json = call[c].body
                   \/ call[c].out.data = call[c].body.env.data
           /\ call[c].out.kind = "rejected" =>
                \/ NetFailed(call[c])
                \/ call[c].body.kind \in {"malformed", "null"}
                \/ ~call[c].ok /\ call[c].out.errResponse = call[c].body.env

\* The second invocation settled first, resolving from its own 2xx response,
\* while the first one holds a non-2xx response.
C5_Witness ==
  /\ call[1].pc = "json" /\ ~call[1].ok
  /\ call[2].pc = "settled" /\ call[2].ok /\ call[2].out.kind = "resolved"
  /\ call[1].method # call[2].method
  /\ call[1].want = call[2].want

\* C6: the check middleware calls next only after checkCaptcha resolved
\* truthy; on a falsy result or a rejection next is not called and an error
\* response is returned; it never requests the verify endpoint.
C6_CheckGatesNext ==
  \A m \in MwIds :
    mw[m].kind = "check" =>
      /\ mw[m].nextCalled =>
           (mw[m].out.kind = "resolved" /\ Truthy(mw[m].out.data))
      /\ (mw[m].out.kind = "rejected"
            \/ (mw[m].out.kind = "resolved" /\ ~Truthy(mw[m].out.data))) =>
           /\ ~mw[m].nextCalled
           /\ mw[m].pc = "done"
           /\ mw[m].resp.status = "500"
      /\ Issued(mw[m]) /\ mw[m].nReq > 0 =>
           (mw[m].req.url # VerifyUrl /\ mw[m].req.url = CheckUrl)

\* A check that resolved negative was answered with the 500 envelope.
C6_Witness ==
  \E m \in MwIds :
    /\ mw[m].kind = "check" /\ mw[m].out.kind = "resolved"
    /\ ~Truthy(mw[m].out.data)
    /\ mw[m].resp = ErrorJson(CheckFailedEnv)

\* C7: the verify middleware makes one verifyCaptcha call per inbound
\* request with a readable body; on resolution the result is in the context
\* under 'captchaA2Result' before next is called; on rejection next is not
\* called, nothing is stored and an error response is returned.
C7_VerifyStoresThenNext ==
  \A m \in MwIds :
    mw[m].kind = "verify" =>
      /\ mw[m].nReq <= 1
      /\ Readable(mw[m].inb) =>
           (mw[m].nReq = 1 /\ mw[m].req.url = VerifyUrl)
      /\ mw[m].out.kind = "resolved" =>
           /\ mw[m].nextCalled /\ mw[m].ctxAtNext
           /\ mw[m].ctxSet /\ mw[m].ctx = mw[m].out.json
      /\ mw[m].out.kind = "rejected" =>
           /\ ~mw[m].nextCalled /\ ~mw[m].ctxSet
           /\ mw[m].pc = "done" /\ mw[m].resp.status = "500"

\* One verify invocation is inside next with the envelope stored, another
\* was rejected upstream and answered 500.
C7_Witness ==
  \E m, n \in MwIds :
    /\ mw[m].kind = "verify" /\ mw[m].pc = "next"
    /\ mw[m].ctxSet /\ mw[m].ctx.env = EnvOk
    /\ mw[n].kind = "verify" /\ mw[n].pc = "done"
    /\ mw[n].out.err = "CaptchaA2Error" /\ mw[n].resp = ErrorJson(EnvBad)

\* C8: a clientIp given to the constructor is the X-Client-IP header of
\* every request issued before the first setClientIp call.
C8_ConfigClientIpUsed ==
  (cfgIp # Absent /\ ~setCalled) =>
    \A c \in CallIds :
      Active(call[c]) => call[c].req.headers.XClientIP = cfgIp

\* C9: the upstream request of a middleware invocation carries the
\* X-Real-IP of the inbound request that invocation handles ("none" when
\* the header is absent).
C9_UpstreamIpIsOwnRealIp ==
  \A m \in MwIds :
    (Issued(mw[m]) /\ mw[m].nReq > 0) =>
      mw[m].req.headers.XClientIP =
        (IF mw[m].realIp = Absent THEN "none" ELSE mw[m].realIp)

\* C10: a middleware answers 500 only when its own captcha call rejected
\* or, for the check middleware, resolved negative.
C10_FailureOnlyFromCaptcha ==
  \A m \in MwIds :
    mw[m].resp.status = "500" =>
      \/ mw[m].out.kind = "rejected"
      \/ mw[m].kind = "check" /\ mw[m].out.kind = "resolved"
           /\ ~Truthy(mw[m].out.data)

====
